---- MODULE Spec2Model ----
(***************************************************************************)
(* Model of dashboard/app.py: the periodic collector (coletar_metricas,    *)
(* salvar_no_banco, coleta_periodica), the SQLite table "metrics", the     *)
(* routes (/, /login, /logout, the pages and the read handlers /metrics    *)
(* and /history behind login_required), and the program entry point        *)
(* (init_db, Thread.start, app.run(debug=True)).                           *)
(*                                                                         *)
(* app.run(debug=True) turns on the Werkzeug reloader: the process started *)
(* by the user ("parent") runs the __main__ block, and its app.run spawns  *)
(* a second interpreter ("child") that runs the same __main__ block again  *)
(* and serves the requests, while the parent waits for it.  Both processes *)
(* share the database file, and each has its own module globals.           *)
(***************************************************************************)
EXTENDS Integers, Sequences, FiniteSets, TLC

\* ------------------------------------------------------------------ bounds
MaxTicks == 2       \* calls of coletar_metricas explored, over all processes

\* ------------------------------------------------------- values of the host
Procs      == {"parent", "child"}
Clock      == {0, 1, 2}            \* int(time.time()), in no fixed order
NetValues  == {0, 3}               \* cumulative byte counters psutil reports
CpuValues  == {10}                 \* psutil.cpu_percent(interval=0.5)
RamValues  == {50}                 \* psutil.virtual_memory().percent
DiskValues == {42}                 \* psutil.disk_usage(mountpoint).percent
disk_partitions == << [device |-> "/dev/sda1", mountpoint |-> "/"],
                      [device |-> "/dev/sdb1", mountpoint |-> "/data"] >>
\* Who may read which mountpoint: every one, or all but the first.
Permissions == { DOMAIN disk_partitions, DOMAIN disk_partitions \ {1} }

\* Optional values (Python None / a value) are sequences of length 0 / 1.
None    == << >>
Some(x) == << x >>

USUARIOS == [admin |-> "admin123", vinicius |-> "senha123"]
FormUsers     == {"admin", "guest"}
FormPasswords == {"admin123", "senha123"}

VARIABLES
    main,         \* main[p]: where the main thread of process p stands
    thread,       \* thread[p]: where the collector thread of process p stands
    last_net,     \* last_net[p]: the module global _last_net of process p
    metrics,      \* metrics[p]: the local "metrics" of coleta_periodica in p
    tableExists,  \* whether metrics.db holds the table "metrics"
    table,        \* the rows of the table "metrics"
    readable,     \* the partitions whose disk_usage the user may read
    session,      \* the browser session: None or Some(usuario)
    response,     \* the response of the step just taken, when it was a request
    ticks         \* calls of coletar_metricas made so far

vars == << main, thread, last_net, metrics, tableExists, table, readable,
           session, response, ticks >>

process  == << main, thread, last_net, metrics >>
database == << tableExists, table >>
web      == << session, response >>

NoResponse == [route |-> "none", status |-> 0, body |-> << >>]

\* response holds the answer of a request from the step that computes it to
\* the step that sends it; the model looks at one answer at a time, so every
\* other step is taken with no answer pending.
Quiet == response = NoResponse

\* ------------------------------------------------------------ JSON (discos)
\* json.dumps of the dict device -> {percent, mountpoint}: the text lists the
\* items in the dict's insertion order, which is the order of disk_partitions.
RECURSIVE json_dumps_from(_, _)
json_dumps_from(d, i) ==
    IF i > Len(disk_partitions) THEN << >>
    ELSE LET dev == disk_partitions[i].device IN
         (IF dev \in DOMAIN d
             THEN << << dev, d[dev].percent, d[dev].mountpoint >> >>
             ELSE << >>) \o json_dumps_from(d, i + 1)

json_dumps(d) == json_dumps_from(d, 1)

\* Mutant of json_loads: the percent is read back rounded down to a multiple
\* of ten.
json_loads_rounded(text) ==
    [dev \in {text[i][1] : i \in DOMAIN text} |->
        LET last == CHOOSE i \in DOMAIN text :
                        /\ text[i][1] = dev
                        /\ \A j \in DOMAIN text : text[j][1] = dev => j <= i
        IN  [percent |-> (text[last][2] \div 10) * 10,
             mountpoint |-> text[last][3]]]

\* json.loads of such a text: the dict again (a later item of a key wins).
json_loads(text) ==
    [dev \in {text[i][1] : i \in DOMAIN text} |->
        LET last == CHOOSE i \in DOMAIN text :
                        /\ text[i][1] = dev
                        /\ \A j \in DOMAIN text : text[j][1] = dev => j <= i
        IN  [percent |-> text[last][2], mountpoint |-> text[last][3]]]

\* -------------------------------------------------------------- the table
\* The tuple bound to the eight "?" of the INSERT statement.
Row(m) ==
    [timestamp        |-> m.timestamp,
     cpu_percent      |-> m.cpu_percent,
     ram_percent      |-> m.ram_percent,
     discos           |-> json_dumps(m.discos),
     net_sent         |-> m.net_sent,
     net_recv         |-> m.net_recv,
     net_sent_per_sec |-> m.net_sent_per_sec,
     net_recv_per_sec |-> m.net_recv_per_sec]

\* Mutant of InsertOrReplace: the table keeps the row written last only.
InsertAsOnlyRow(rows, row) == {row}

\* Mutant of InsertOrReplace: a plain INSERT on a table without the key.
InsertAppend(rows, row) == rows \cup {row}

\* INSERT OR REPLACE on a table whose primary key is timestamp.
InsertOrReplace(rows, row) ==
    {r \in rows : r.timestamp # row.timestamp} \cup {row}

\* The dict a handler builds from a fetched row.
RowToDict(row) ==
    [timestamp        |-> row.timestamp,
     cpu_percent      |-> row.cpu_percent,
     ram_percent      |-> row.ram_percent,
     discos           |-> json_loads(row.discos),
     net_sent         |-> row.net_sent,
     net_recv         |-> row.net_recv,
     net_sent_per_sec |-> row.net_sent_per_sec,
     net_recv_per_sec |-> row.net_recv_per_sec]

\* Mutant of SelectLatest: ORDER BY timestamp ASC LIMIT 1.
SelectEarliest(rows) ==
    IF rows = {} THEN << >>
    ELSE << CHOOSE r \in rows : \A s \in rows : r.timestamp <= s.timestamp >>

\* SELECT * FROM metrics ORDER BY timestamp DESC LIMIT 1, then fetchone():
\* None on an empty table, else the row the descending order puts first.
SelectLatest(rows) ==
    IF rows = {} THEN None
    ELSE Some(CHOOSE r \in rows : \A s \in rows : s.timestamp <= r.timestamp)

\* Mutant of SelectAllAsc: ORDER BY timestamp DESC.
RECURSIVE SelectAllDesc(_)
SelectAllDesc(rows) ==
    IF rows = {} THEN << >>
    ELSE LET first == CHOOSE r \in rows :
                          \A s \in rows : s.timestamp <= r.timestamp
         IN  << first >> \o SelectAllDesc(rows \ {first})

\* SELECT * FROM metrics ORDER BY timestamp ASC, then fetchall().
RECURSIVE SelectAllAsc(_)
SelectAllAsc(rows) ==
    IF rows = {} THEN << >>
    ELSE LET first == CHOOSE r \in rows :
                          \A s \in rows : r.timestamp <= s.timestamp
         IN  << first >> \o SelectAllAsc(rows \ {first})

\* ------------------------------------------------------- coletar_metricas
\* Mutant of DiscoMetrics: "break" in place of "continue"; the loop ends at
\* the first partition whose disk_usage raises PermissionError.
DiscoMetricsUntilError(permitted, usage) ==
    LET before == {i \in permitted : \A j \in 1 .. i : j \in permitted} IN
    [dev \in {disk_partitions[i].device : i \in before} |->
        LET i == CHOOSE j \in before : disk_partitions[j].device = dev
        IN  [percent |-> usage[i], mountpoint |-> disk_partitions[i].mountpoint]]

\* The loop over psutil.disk_partitions(): a partition whose disk_usage
\* raises PermissionError (it is not in "readable") is skipped.
DiscoMetrics(permitted, usage) ==
    [dev \in {disk_partitions[i].device : i \in permitted} |->
        LET i == CHOOSE j \in permitted : disk_partitions[j].device = dev
        IN  [percent |-> usage[i], mountpoint |-> disk_partitions[i].mountpoint]]

\* Mutant of PyFloorDiv: int(a / b), which truncates toward zero.
TruncDiv(a, b) ==
    LET abs(x) == IF x < 0 THEN 0 - x ELSE x
        q == abs(a) \div abs(b)
    IN  IF (a < 0) = (b < 0) THEN q ELSE 0 - q

\* Python's a // b for b # 0: the floor of the quotient, for either sign of b.
PyFloorDiv(a, b) == IF b > 0 THEN a \div b ELSE (0 - a) \div (0 - b)

Rates(sent, recv) ==
    [raised |-> FALSE, net_sent_per_sec |-> sent, net_recv_per_sec |-> recv]
ZeroDivisionError ==
    [raised |-> TRUE, net_sent_per_sec |-> 0, net_recv_per_sec |-> 0]

\* Mutant of NetRates: _last_net starts as a reading of zeros, not as None.
NetRatesFromZero(last, timestamp, net_sent, net_recv) ==
    LET prev == IF last # << >> THEN last[1]
                ELSE [timestamp |-> 0, net_sent |-> 0, net_recv |-> 0]
        duration == timestamp - prev.timestamp
    IN  IF duration > 0
        THEN Rates(PyFloorDiv(net_sent - prev.net_sent, duration),
                   PyFloorDiv(net_recv - prev.net_recv, duration))
        ELSE Rates(0, 0)

\* Mutant of NetRates: the guard is "duration >= 0".
NetRatesZeroDuration(last, timestamp, net_sent, net_recv) ==
    IF last # << >>
    THEN LET duration == timestamp - last[1].timestamp IN
         IF duration = 0 THEN ZeroDivisionError
         ELSE IF duration > 0
         THEN Rates(PyFloorDiv(net_sent - last[1].net_sent, duration),
                    PyFloorDiv(net_recv - last[1].net_recv, duration))
         ELSE Rates(0, 0)
    ELSE Rates(0, 0)

\* The if/else that computes the two rates from _last_net and the new reading.
NetRates(last, timestamp, net_sent, net_recv) ==
    IF last # None
    THEN LET duration == timestamp - last[1].timestamp IN
         IF duration > 0
         THEN Rates(PyFloorDiv(net_sent - last[1].net_sent, duration),
                    PyFloorDiv(net_recv - last[1].net_recv, duration))
         ELSE Rates(0, 0)
    ELSE Rates(0, 0)

\* Mutant of UpdatedLastNet: the reading is remembered only when a rate was
\* computed from it or no reading was remembered.
UpdatedWhenRateComputed(last, timestamp, net_sent, net_recv) ==
    IF last # << >> /\ timestamp - last[1].timestamp <= 0
    THEN last
    ELSE << [timestamp |-> timestamp, net_sent |-> net_sent,
             net_recv |-> net_recv] >>

\* The assignment to _last_net that follows the if/else.
UpdatedLastNet(last, timestamp, net_sent, net_recv) ==
    Some([timestamp |-> timestamp, net_sent |-> net_sent, net_recv |-> net_recv])

coletar_metricas(p) ==
    /\ Quiet
    /\ thread[p] = "collect"
    /\ ticks < MaxTicks
    /\ \E usage \in [DOMAIN disk_partitions -> DiskValues],
          cpu_percent \in CpuValues, ram_percent \in RamValues,
          timestamp \in Clock, net_sent \in NetValues, net_recv \in NetValues :
          LET r == NetRates(last_net[p], timestamp, net_sent, net_recv) IN
          IF r.raised
          THEN /\ thread' = [thread EXCEPT ![p] = "crashed"]
               /\ UNCHANGED << last_net, metrics >>
          ELSE /\ last_net' = [last_net EXCEPT ![p] =
                       UpdatedLastNet(last_net[p], timestamp, net_sent, net_recv)]
               /\ metrics' = [metrics EXCEPT ![p] = Some(
                       [cpu_percent      |-> cpu_percent,
                        ram_percent      |-> ram_percent,
                        discos           |-> DiscoMetrics(readable, usage),
                        net_sent         |-> net_sent,
                        net_recv         |-> net_recv,
                        net_sent_per_sec |-> r.net_sent_per_sec,
                        net_recv_per_sec |-> r.net_recv_per_sec,
                        timestamp        |-> timestamp])]
               /\ thread' = [thread EXCEPT ![p] = "save"]
    /\ ticks' = ticks + 1
    /\ UNCHANGED << main, database, readable, web >>

\* -------------------------------------------------------- salvar_no_banco
\* Mutant of VisibleBeforeCommit: the statement writes in place, column by
\* column, and the others see the row when its key is written and the
\* columns after cpu_percent and ram_percent are not.
VisibleHalfWritten(rows, row) ==
    {r \in rows : r.timestamp # row.timestamp}
        \cup {[row EXCEPT !.discos = << >>, !.net_sent = 0, !.net_recv = 0,
                          !.net_sent_per_sec = 0, !.net_recv_per_sec = 0]}

\* What the other connections see of the table between c.execute(INSERT OR
\* REPLACE ...) and conn.commit(): the statement runs in the transaction that
\* sqlite3 opened for it, so they see the rows as they were.
VisibleBeforeCommit(rows, row) == rows

\* Another connection holds the write lock of metrics.db.
WriteLocked(p) == \E q \in Procs \ {p} : thread[q] = "commit"

\* sqlite3.connect and c.execute(INSERT OR REPLACE ...).  ok = FALSE: sqlite3
\* raises (database locked past the timeout, disk full, file unreadable);
\* the exception leaves salvar_no_banco.  The loop of coleta_periodica has
\* no try/except, so it ends the collector thread.
salvar_no_banco(p) ==
    /\ Quiet
    /\ thread[p] = "save"
    /\ \E ok \in BOOLEAN :
          IF ok /\ tableExists /\ ~WriteLocked(p)
          THEN /\ table' = VisibleBeforeCommit(table, Row(metrics[p][1]))
               /\ thread' = [thread EXCEPT ![p] = "commit"]
          ELSE /\ table' = table
               /\ thread' = [thread EXCEPT ![p] = "crashed"]
    /\ UNCHANGED << main, last_net, metrics, tableExists, readable, web, ticks >>

\* conn.commit() and conn.close(), the end of salvar_no_banco: the row
\* replaces the row of its timestamp, for every connection at once.
\* ok = FALSE: the commit raises and the transaction is rolled back.
conn_commit(p) ==
    /\ Quiet
    /\ thread[p] = "commit"
    /\ \E ok \in BOOLEAN :
          IF ok
          THEN /\ table' = InsertOrReplace(table, Row(metrics[p][1]))
               /\ thread' = [thread EXCEPT ![p] = "sleep"]
          ELSE /\ table' = table
               /\ thread' = [thread EXCEPT ![p] = "crashed"]
    /\ UNCHANGED << main, last_net, metrics, tableExists, readable, web, ticks >>

\* time.sleep(5) at the end of an iteration of coleta_periodica.
sleep(p) ==
    /\ Quiet
    /\ thread[p] = "sleep"
    /\ thread' = [thread EXCEPT ![p] = "collect"]
    /\ UNCHANGED << main, last_net, metrics, database, readable, web, ticks >>

\* ------------------------------------------------------------------ __main__
\* Mutant of CreateTableIfNotExists: DROP TABLE IF EXISTS, then CREATE TABLE.
DropAndCreateTable(exists, rows) == {}

\* The rows after CREATE TABLE IF NOT EXISTS metrics (...): those of the
\* table when it exists, none in the table it creates.
CreateTableIfNotExists(exists, rows) == IF exists THEN rows ELSE {}

\* Mutant of init_db: the call is wrapped in try/except and the program goes
\* on to start the thread when it fails.
init_db_or_go_on(p) ==
    /\ Quiet
    /\ main[p] = "init_db"
    /\ \E ok \in BOOLEAN :
          IF ok
          THEN /\ tableExists' = TRUE
               /\ table' = CreateTableIfNotExists(tableExists, table)
          ELSE UNCHANGED database
    /\ main' = [main EXCEPT ![p] = "start_thread"]
    /\ UNCHANGED << thread, last_net, metrics, readable, web, ticks >>

\* init_db(): CREATE TABLE IF NOT EXISTS.  ok = FALSE: sqlite3 raises and the
\* traceback ends the process before the thread is started.
init_db(p) ==
    /\ Quiet
    /\ main[p] = "init_db"
    /\ \E ok \in BOOLEAN :
          IF ok
          THEN /\ tableExists' = TRUE
               /\ table' = CreateTableIfNotExists(tableExists, table)
               /\ main' = [main EXCEPT ![p] = "start_thread"]
          ELSE /\ UNCHANGED database
               /\ main' = [main EXCEPT ![p] = "exited"]
    /\ UNCHANGED << thread, last_net, metrics, readable, web, ticks >>

\* threading.Thread(target=coleta_periodica, daemon=True).start()
start_thread(p) ==
    /\ Quiet
    /\ main[p] = "start_thread"
    /\ thread' = [thread EXCEPT ![p] = "collect"]
    /\ main' = [main EXCEPT ![p] = "app_run"]
    /\ UNCHANGED << last_net, metrics, database, readable, web, ticks >>

\* app.run(debug=True).  In the parent the reloader starts the child
\* interpreter on the same script and waits for it; in the child (started
\* with WERKZEUG_RUN_MAIN=true) the server starts to serve.
app_run(p) ==
    /\ Quiet
    /\ main[p] = "app_run"
    /\ IF p = "parent"
       THEN /\ main' = [main EXCEPT !["parent"] = "reloader",
                                    !["child"] = "init_db"]
            /\ thread' = [thread EXCEPT !["child"] = "off"]
            /\ last_net' = [last_net EXCEPT !["child"] = None]
            /\ metrics' = [metrics EXCEPT !["child"] = None]
       ELSE /\ main' = [main EXCEPT ![p] = "serving"]
            /\ UNCHANGED << thread, last_net, metrics >>
    /\ UNCHANGED << database, readable, web, ticks >>

\* The child ended with another exit code: the parent's app.run ends with
\* sys.exit, and the parent's daemon thread ends with its process.
reloader_exit ==
    /\ Quiet
    /\ main["parent"] = "reloader"
    /\ main["child"] = "exited"
    /\ main' = [main EXCEPT !["parent"] = "exited"]
    /\ thread' = [thread EXCEPT !["parent"] = "off"]
    /\ UNCHANGED << last_net, metrics, database, readable, web, ticks >>

\* ---------------------------------------------------------------- requests
Serving == \E p \in Procs : main[p] = "serving"

Redirect(route) == [route |-> route, status |-> 302, body |-> << >>]

\* GET /: redirect to the login page.
root ==
    /\ Quiet
    /\ Serving
    /\ response' = Redirect("root")
    /\ UNCHANGED << process, database, readable, session, ticks >>

\* GET /login: the login form.
login_form ==
    /\ Quiet
    /\ Serving
    /\ response' = [route |-> "login", status |-> 200, body |-> << >>]
    /\ UNCHANGED << process, database, readable, session, ticks >>

\* Mutant of login: the password is not compared.
login_known_user(usuario, senha) ==
    /\ Quiet
    /\ Serving
    /\ IF usuario \in DOMAIN USUARIOS
       THEN /\ session' = << usuario >>
            /\ response' = Redirect("login")
       ELSE /\ session' = session
            /\ response' = [route |-> "login", status |-> 200, body |-> << >>]
    /\ UNCHANGED << process, database, readable, ticks >>

\* POST /login with the form fields usuario and senha.
login(usuario, senha) ==
    /\ Quiet
    /\ Serving
    /\ IF usuario \in DOMAIN USUARIOS /\ USUARIOS[usuario] = senha
       THEN /\ session' = Some(usuario)
            /\ response' = Redirect("login")
       ELSE /\ session' = session
            /\ response' = [route |-> "login", status |-> 200, body |-> << >>]
    /\ UNCHANGED << process, database, readable, ticks >>

\* GET /logout
logout ==
    /\ Quiet
    /\ Serving
    /\ session' = None
    /\ response' = Redirect("logout")
    /\ UNCHANGED << process, database, readable, ticks >>

\* The decorator: without 'usuario' in the session the view is not called.
login_required(route, view) ==
    IF session = None THEN Redirect(route) ELSE view

\* GET /dashboard, /historico, /config or /sobre: the four views differ in
\* the template they render, which the response here does not tell apart.
get_page ==
    /\ Quiet
    /\ Serving
    /\ response' = login_required("page",
                        [route |-> "page", status |-> 200, body |-> << >>])
    /\ UNCHANGED << process, database, readable, session, ticks >>

\* Mutant of metrics_view: the view catches the exception of sqlite3 and
\* answers the empty object.
metrics_view_or_empty(ok) ==
    IF ok /\ tableExists
    THEN LET row == SelectLatest(table) IN
         [route |-> "metrics", status |-> 200,
          body |-> IF row # << >> THEN << RowToDict(row[1]) >> ELSE << >>]
    ELSE [route |-> "metrics", status |-> 200, body |-> << >>]

\* The view of GET /metrics.  ok = FALSE: sqlite3 raises, Flask answers 500.
metrics_view(ok) ==
    IF ok /\ tableExists
    THEN LET row == SelectLatest(table) IN
         [route |-> "metrics", status |-> 200,
          body |-> IF row # None THEN << RowToDict(row[1]) >> ELSE << >>]
    ELSE [route |-> "metrics", status |-> 500, body |-> << >>]

\* Mutant of get_metrics: the view reads the network counters itself and
\* remembers the reading in _last_net of the serving process.
get_metrics_sampling ==
    /\ Quiet
    /\ Serving
    /\ \E ok \in BOOLEAN :
          response' = login_required("metrics", metrics_view(ok))
    /\ \E timestamp \in Clock, net_sent \in NetValues, net_recv \in NetValues :
          last_net' = [last_net EXCEPT !["child"] =
                          << [timestamp |-> timestamp, net_sent |-> net_sent,
                              net_recv |-> net_recv] >>]
    /\ UNCHANGED << main, thread, metrics, database, readable, session, ticks >>

get_metrics ==
    /\ Quiet
    /\ Serving
    /\ \E ok \in BOOLEAN :
          response' = login_required("metrics", metrics_view(ok))
    /\ UNCHANGED << process, database, readable, session, ticks >>

\* The view of GET /history.
history_view(ok) ==
    IF ok /\ tableExists
    THEN LET data == SelectAllAsc(table) IN
         [route |-> "history", status |-> 200,
          body |-> [i \in DOMAIN data |-> RowToDict(data[i])]]
    ELSE [route |-> "history", status |-> 500, body |-> << >>]

get_history ==
    /\ Quiet
    /\ Serving
    /\ \E ok \in BOOLEAN :
          response' = login_required("history", history_view(ok))
    /\ UNCHANGED << process, database, readable, session, ticks >>

\* The server has sent the response: the request is over.
respond ==
    /\ response # NoResponse
    /\ response' = NoResponse
    /\ UNCHANGED << process, database, readable, session, ticks >>

\* ------------------------------------------------------------ specification
\* metrics.db outlives the program: at start it is absent, or holds the table
\* as an earlier run left it, here with the row of that run's first tick.
EarlierRow ==
    Row([cpu_percent      |-> CHOOSE c \in CpuValues : TRUE,
         ram_percent      |-> CHOOSE c \in RamValues : TRUE,
         discos           |-> DiscoMetrics({}, << >>),
         net_sent         |-> 3,
         net_recv         |-> 3,
         net_sent_per_sec |-> 0,
         net_recv_per_sec |-> 0,
         timestamp        |-> 1])

Init ==
    /\ main = [p \in Procs |-> IF p = "parent" THEN "init_db" ELSE "off"]
    /\ thread = [p \in Procs |-> "off"]
    /\ last_net = [p \in Procs |-> None]
    /\ metrics = [p \in Procs |-> None]
    /\ \E db \in { << FALSE, {} >>, << TRUE, {EarlierRow} >> } :
          /\ tableExists = db[1]
          /\ table = db[2]
    /\ readable \in Permissions
    /\ session = None
    /\ response = NoResponse
    /\ ticks = 0

Next ==
    \/ \E p \in Procs : init_db(p)
    \/ \E p \in Procs : start_thread(p)
    \/ \E p \in Procs : app_run(p)
    \/ reloader_exit
    \/ \E p \in Procs : coletar_metricas(p)
    \/ \E p \in Procs : salvar_no_banco(p)
    \/ \E p \in Procs : conn_commit(p)
    \/ \E p \in Procs : sleep(p)
    \/ root
    \/ login_form
    \/ \E usuario \in FormUsers, senha \in FormPasswords : login(usuario, senha)
    \/ logout
    \/ get_page
    \/ get_metrics
    \/ get_history
    \/ respond

Spec == Init /\ [][Next]_vars

\* ================================================================== claims
Triple(m) ==
    [timestamp |-> m.timestamp, net_sent |-> m.net_sent, net_recv |-> m.net_recv]

RowsAt(rows, t) == {r \in rows : r.timestamp = t}

\* The step of process p that is a call of coletar_metricas which returned.
Collected(p) == thread[p] = "collect" /\ thread'[p] = "save"
\* The step of process p that is a call of salvar_no_banco which returned.
Saved(p) == thread[p] = "commit" /\ thread'[p] = "sleep"

\* The floor of delta / duration for duration > 0, by its defining property.
FloorQuotient(delta, duration) ==
    LET a == IF delta < 0 THEN 0 - delta ELSE delta IN
    CHOOSE q \in (0 - a) .. a :
        q * duration <= delta /\ delta < (q + 1) * duration

\* C1: the table holds at most one row per timestamp, and a call of
\* salvar_no_banco leaves exactly one row for the sample's timestamp, which
\* reads back as that sample, and leaves the rows of other timestamps alone.
C1_UpsertOverwrites ==
    [][ /\ \A r1, r2 \in table' : r1.timestamp = r2.timestamp => r1 = r2
        /\ \A p \in Procs : Saved(p) =>
              LET m == metrics[p][1] IN
              /\ Cardinality(RowsAt(table', m.timestamp)) = 1
              /\ \A r \in RowsAt(table', m.timestamp) : RowToDict(r) = m
              /\ \A t \in Clock \ {m.timestamp} :
                    RowsAt(table', t) = RowsAt(table, t) ]_vars

\* Two samples of one timestamp and different payloads were both saved, and
\* the table holds one row of that timestamp next to a row of another one.
C1_Witness ==
    /\ thread["parent"] = "sleep" /\ thread["child"] = "sleep"
    /\ metrics["parent"][1].timestamp = metrics["child"][1].timestamp
    /\ metrics["parent"][1] # metrics["child"][1]
    /\ Cardinality(RowsAt(table, metrics["child"][1].timestamp)) = 1
    /\ Cardinality(table) = 2

\* C2: the answer of /history lists every row of the table exactly once, in
\* strictly ascending order of timestamp; it is empty when the table is.
C2_HistoryAscending ==
    (response.route = "history" /\ response.status = 200) =>
        LET body == response.body IN
        /\ Len(body) = Cardinality(table)
        /\ {body[i] : i \in DOMAIN body} = {RowToDict(r) : r \in table}
        /\ \A i, j \in DOMAIN body :
              i < j => body[i].timestamp < body[j].timestamp
        /\ (table = {} => body = << >>)

\* /history answers three rows, of which the one between the two others in
\* time was in the table before them.
C2_Witness ==
    /\ response.route = "history" /\ response.status = 200
    /\ Len(response.body) = 3
    /\ EarlierRow \in table
    /\ response.body[2] = RowToDict(EarlierRow)

C4_RatesNonNegative ==
    /\ \A p \in Procs : \A i \in DOMAIN metrics[p] :
          metrics[p][i].net_sent_per_sec >= 0 /\ metrics[p][i].net_recv_per_sec >= 0
    /\ \A r \in table : r.net_sent_per_sec >= 0 /\ r.net_recv_per_sec >= 0

\* C5: a failure of salvar_no_banco does not end the loop of coleta_periodica:
\* no collector thread is ever ended by an exception.
C5_LoopSurvivesWriteFailure ==
    \A p \in Procs : thread[p] # "crashed"

\* C6: the first call of coletar_metricas in a process (no sample was made in
\* it before) yields both rates 0.
C6_FirstCallZeroRates ==
    [][ \A p \in Procs : (Collected(p) /\ metrics[p] = None) =>
            /\ metrics'[p][1].net_sent_per_sec = 0
            /\ metrics'[p][1].net_recv_per_sec = 0 ]_vars

\* The first call of the run read non-zero counters at a time after 0, while
\* the table held a row of an earlier run, and its rates are 0.
C6_Witness ==
    /\ ticks = 1
    /\ table # {}
    /\ \E p \in Procs :
          /\ thread[p] = "save"
          /\ metrics[p][1].timestamp > 0
          /\ metrics[p][1].net_sent > 0 /\ metrics[p][1].net_recv > 0
          /\ metrics[p][1].net_sent_per_sec = 0
          /\ metrics[p][1].net_recv_per_sec = 0

\* C7: a call of coletar_metricas with a remembered reading and
\* duration <= 0 yields both rates 0, and no call of coletar_metricas raises.
C7_NonPositiveDurationZeroRates ==
    [][ \A p \in Procs :
          /\ ~(thread[p] = "collect" /\ thread'[p] = "crashed")
          /\ (Collected(p) /\ last_net[p] # None
                 /\ metrics'[p][1].timestamp - last_net[p][1].timestamp <= 0) =>
                /\ metrics'[p][1].net_sent_per_sec = 0
                /\ metrics'[p][1].net_recv_per_sec = 0 ]_vars

\* The second call of the only collecting process read a time not after the
\* time of its first call (whose row, with the disk of this run, is in the
\* table) and other counters, and its rates are 0.
C7_Witness ==
    /\ ticks = 2
    /\ \E p \in Procs :
          /\ \A q \in Procs \ {p} : metrics[q] = None
          /\ thread[p] = "save"
          /\ metrics[p][1].net_sent_per_sec = 0
          /\ metrics[p][1].net_recv_per_sec = 0
          /\ \E r \in table :
                /\ r.discos # << >>
                /\ r.timestamp >= metrics[p][1].timestamp
                /\ r.net_sent # metrics[p][1].net_sent
                /\ r.net_recv # metrics[p][1].net_recv

\* C8: a call of coletar_metricas later than the sample of the preceding tick
\* (duration > 0) yields, for each counter, the floor of the difference to
\* that sample's counter divided by the duration.
C8_RateIsFloorOfDifference ==
    [][ \A p \in Procs :
          (Collected(p) /\ metrics[p] # None
              /\ metrics'[p][1].timestamp > metrics[p][1].timestamp) =>
             LET prev == metrics[p][1]
                 cur  == metrics'[p][1]
                 duration == cur.timestamp - prev.timestamp
             IN  /\ cur.net_sent_per_sec =
                       FloorQuotient(cur.net_sent - prev.net_sent, duration)
                 /\ cur.net_recv_per_sec =
                       FloorQuotient(cur.net_recv - prev.net_recv, duration) ]_vars

\* A rate that is a quotient with a remainder: 3 bytes in 2 seconds.
C8_Witness ==
    \E p \in Procs :
        /\ thread[p] = "save"
        /\ metrics[p][1].net_sent_per_sec = 1
        /\ metrics[p][1].net_recv_per_sec = 0

\* C9: once coletar_metricas has returned a sample in a process, _last_net of
\* that process is the (timestamp, net_sent, net_recv) of its latest sample.
C9_LastNetIsLatestReading ==
    \A p \in Procs :
        metrics[p] # None => last_net[p] = Some(Triple(metrics[p][1]))

\* The second call of the only collecting process took the branch of
\* duration <= 0, and _last_net holds its reading.
C9_Witness ==
    /\ ticks = 2
    /\ \E p \in Procs :
          /\ \A q \in Procs \ {p} : metrics[q] = None
          /\ thread[p] = "sleep"
          /\ last_net[p] = Some(Triple(metrics[p][1]))
          /\ \E r \in table :
                /\ r.discos # << >>
                /\ r.timestamp > metrics[p][1].timestamp

\* C10: at most one collect-and-store cycle is in progress at any time.
C10_SingleProducer ==
    Cardinality({p \in Procs : thread[p] = "save"}) <= 1

\* The step that is a call of the view of /metrics or /history which returned
\* rows; Writing(p): p has executed its INSERT OR REPLACE and not committed.
ReadStep == response = NoResponse /\ response'.status = 200
                /\ response'.route \in {"metrics", "history"}
Writing(p) == thread[p] = "commit"

C12_ReadFailureIsAnError ==
    /\ \A ok \in BOOLEAN : (~ok \/ ~tableExists) =>
          /\ metrics_view(ok).status = 500
          /\ history_view(ok).status = 500
    /\ (response.route \in {"metrics", "history"} /\ response.status = 200
            /\ response.body = << >>) => (tableExists /\ table = {})
    /\ response.route \in {"metrics", "history"} =>
          response.status \in {200, 302, 500}

\* /metrics answered 500 while the table held rows.
C12_Witness ==
    /\ response.route = "metrics" /\ response.status = 500
    /\ session # None
    /\ table # {}

\* C13: when disk_usage raises PermissionError for a partition, the call of
\* coletar_metricas still returns, discos has exactly the devices of the
\* readable partitions, each with its mountpoint and a usage, and the other
\* seven fields and _last_net are what the rate rule gives for the readings.
C13_UnreadablePartitionSkipped ==
    [][ \A p \in Procs :
          (thread[p] = "collect" /\ thread'[p] # "collect"
               /\ main'[p] = main[p]) =>
             /\ Collected(p)
             /\ LET m == metrics'[p][1]
                     r == NetRates(last_net[p], m.timestamp, m.net_sent, m.net_recv)
                 IN  /\ DOMAIN m.discos =
                            {disk_partitions[i].device : i \in readable}
                     /\ \A i \in readable :
                            LET d == m.discos[disk_partitions[i].device] IN
                            /\ d.mountpoint = disk_partitions[i].mountpoint
                            /\ d.percent \in DiskValues
                     /\ m.timestamp \in Clock
                     /\ m.cpu_percent \in CpuValues
                     /\ m.ram_percent \in RamValues
                     /\ m.net_sent \in NetValues /\ m.net_recv \in NetValues
                     /\ m.net_sent_per_sec = r.net_sent_per_sec
                     /\ m.net_recv_per_sec = r.net_recv_per_sec
                     /\ last_net'[p] = Some(Triple(m)) ]_vars

\* The first partition is unreadable; the second call of a process returned
\* a sample with the second partition only and a rate computed from the
\* reading of the first call.
C13_Witness ==
    /\ 1 \notin readable
    /\ \E p \in Procs :
          /\ thread[p] = "save"
          /\ DOMAIN metrics[p][1].discos = {disk_partitions[2].device}
          /\ metrics[p][1].net_sent_per_sec = 3
          /\ last_net[p] = Some(Triple(metrics[p][1]))

\* The steps of the collector thread of p in the order of the loop body: a
\* sample, then the INSERT OR REPLACE and the commit of that same sample,
\* then the sleep, then the next sample.
IterationOrder(p) ==
    thread'[p] # thread[p] =>
        \/ thread[p] = "off" /\ thread'[p] = "collect"
        \/ Collected(p)
        \/ thread[p] = "collect" /\ thread'[p] = "crashed"
        \/ thread[p] = "save" /\ thread'[p] \in {"commit", "crashed"}
               /\ metrics'[p] = metrics[p]
        \/ thread[p] = "commit" /\ thread'[p] = "crashed"
        \/ Saved(p) /\ Row(metrics[p][1]) \in table' /\ metrics'[p] = metrics[p]
        \/ thread[p] = "sleep" /\ thread'[p] = "collect"
        \/ main'[p] # main[p] /\ thread'[p] = "off"

\* C14: the loop of coleta_periodica never ends by itself, and each of its
\* iterations samples once, saves that sample once and then sleeps, the save
\* of one iteration ending before the sample of the next.
C14_LoopNeverEndsAndKeepsOrder ==
    [][ \A p \in Procs :
          /\ IterationOrder(p)
          /\ thread'[p] # "crashed" ]_vars

Timestamps(rows) == {r.timestamp : r \in rows}

\* C15: no step of the program takes a timestamp out of the table; the set of
\* the timestamps of its rows grows or stays as it is.
C15_TimestampsNeverRemoved ==
    [][ Timestamps(table) \subseteq Timestamps(table') ]_vars

\* Both processes passed init_db and one of them saved two samples of one
\* timestamp, on a table that held a row of another timestamp, which is
\* still there.
C15_Witness ==
    /\ ticks = 2
    /\ main["child"] = "serving"
    /\ EarlierRow \in table
    /\ Cardinality(table) = 2
    /\ \E p \in Procs :
          /\ thread[p] = "sleep"
          /\ \A q \in Procs \ {p} : metrics[q] = None

\* The step of process p that is a call of init_db which returned.
Initialised(p) == main[p] = "init_db" /\ main'[p] = "start_thread"

\* C16: a call of init_db that returns leaves the table in place; when the
\* table was there before the call, its rows are the same after it.
C16_InitDbKeepsRows ==
    [][ \A p \in Procs : Initialised(p) =>
            /\ tableExists'
            /\ tableExists => table' = table ]_vars

\* init_db returned in the child on a table that held the row of an earlier
\* run and a row the parent wrote after its own init_db.
C16_Witness ==
    /\ main["child"] = "start_thread"
    /\ EarlierRow \in table
    /\ \E r \in table : r.discos # << >>

ReadRequest == response = NoResponse
                   /\ response'.route \in {"metrics", "history"}

\* C19: a request to /metrics or /history, answered with rows, with an error
\* or with a redirect, leaves the table, _last_net and the collectors as
\* they are; the rows change only in a save of a collector and _last_net
\* only in a call of coletar_metricas.
C19_ReadsChangeNothing ==
    [][ /\ ReadRequest =>
              UNCHANGED << table, tableExists, last_net, metrics, thread >>
        /\ table' # table => \E p \in Procs : Saved(p)
        /\ last_net' # last_net => \E p \in Procs : Collected(p) ]_vars

\* /history answered 500 to a logged-in session while the table held two
\* rows and the serving process remembered a reading.
C19_Witness ==
    /\ response.route = "history" /\ response.status = 500
    /\ Cardinality(table) = 2
    /\ last_net["child"] # None

\* The routes behind login_required, as the responses name them.
Protected == {"metrics", "history", "page"}

\* C20: a request to a route behind login_required from a session without
\* 'usuario' is answered with a redirect and nothing of the store (no row, no
\* error of a read); 'usuario' is put in the session only by a POST /login
\* whose usuario is a key of USUARIOS and whose senha is its value; a request
\* to /logout leaves the session without 'usuario'.  No POST /login with
\* another pair of usuario and senha can change the session.
C20_OnlyLoggedInSessionsRead ==
    /\ [][ /\ (response = NoResponse /\ response'.route \in Protected
                   /\ session = None) =>
                 (response' = Redirect(response'.route) /\ session' = None)
           /\ (session' # session /\ session' # None) =>
                 \E usuario \in FormUsers, senha \in FormPasswords :
                     /\ login(usuario, senha)
                     /\ usuario \in DOMAIN USUARIOS
                     /\ USUARIOS[usuario] = senha
                     /\ session' = Some(usuario)
           /\ (response = NoResponse /\ response'.route = "logout") =>
                 session' = None
           /\ (response = NoResponse /\ response'.route \in Protected
                   /\ response'.status # 302) => session # None ]_vars
    /\ [](\A usuario \in FormUsers, senha \in FormPasswords :
             (usuario \notin DOMAIN USUARIOS \/ USUARIOS[usuario] # senha) =>
                 ~ENABLED (login(usuario, senha) /\ session' # session))

\* /history was asked without a login while the table held two rows, and
\* the answer is a redirect.
C20_Witness ==
    /\ session = None
    /\ response = Redirect("history")
    /\ Cardinality(table) = 2

====
